---- MODULE Spec2Model ----
(***************************************************************************)
(* Dirac and product measures of mystic (_math/dirac_measure.py).          *)
(*                                                                         *)
(* A point is a record [position, weight]; a dirac_measure is a sequence   *)
(* of points; a product_measure is a sequence of dirac_measures.  Python   *)
(* lists are 0-based, the sequences here are 1-based: index k of the code  *)
(* is index k+1 of the model.  Weights are floats in the code; the model   *)
(* draws them from small integers, on which the float products and sums    *)
(* of the code are exact.                                                  *)
(***************************************************************************)
EXTENDS Integers, Sequences, FiniteSets, TLC

VARIABLES
  c,     \* the product_measure: a sequence of sequences of points
  op,    \* the operation that acted last
  arg,   \* its arguments
  ret,   \* what it returned
  err    \* the exception it raised, or "none"

vars == <<c, op, arg, ret, err>>

\* Bounds of the model: the number of dimensions, and of points in all.
MaxDim == 2
MaxPoints == 4

\* The values points are built from and the functions handed to pof.
Positions == {0, 1}
Weights == {1, 2}
Functions == {"one", "minus_one", "first", "sum_minus_one"}

----------------------------------------------------------------------------
\* Helpers on sequences

RECURSIVE SumSeq(_)
SumSeq(s) == IF s = <<>> THEN 0 ELSE s[1] + SumSeq(Tail(s))

RECURSIVE Concat(_)
Concat(ss) == IF ss = <<>> THEN <<>> ELSE ss[1] \o Concat(Tail(ss))

\* Every sequence over S of length n
SeqsOfLen(S, n) == [1..n -> S]

\* The sequences over S of length n that the setters are handed: those that
\* alternate between two values of S (a, b, a, b, ...), the constant ones
\* among them
InputSeqs(S, n) ==
  {[j \in 1..n |-> IF j % 2 = 1 THEN a ELSE b] : a \in S, b \in S}

\* The point counts of the measures the model builds: 1..MaxDim dimensions,
\* each of at least one point, MaxPoints points in all.
RECURSIVE ShapesOfDim(_)
ShapesOfDim(d) ==
  IF d = 0 THEN {<<>>}
  ELSE {Append(s, n) : s \in ShapesOfDim(d - 1), n \in 1..MaxPoints}

Shapes ==
  {s \in UNION {ShapesOfDim(d) : d \in 1..MaxDim} : SumSeq(s) <= MaxPoints}

\* Nested sequences over S, one inner sequence per dimension of `shape`
RECURSIVE NestedUpTo(_, _, _)
NestedUpTo(S, shape, d) ==
  IF d = 0 THEN {<<>>}
  ELSE {Append(x, s) : x \in NestedUpTo(S, shape, d - 1),
                       s \in SeqsOfLen(S, shape[d])}

Nested(S, shape) == NestedUpTo(S, shape, Len(shape))

\* The same of the sequences the setters are handed
RECURSIVE NestedInputsUpTo(_, _, _)
NestedInputsUpTo(S, shape, d) ==
  IF d = 0 THEN {<<>>}
  ELSE {Append(x, s) : x \in NestedInputsUpTo(S, shape, d - 1),
                       s \in InputSeqs(S, shape[d])}

NestedInputs(S, shape) == NestedInputsUpTo(S, shape, Len(shape))

----------------------------------------------------------------------------
\* class point

point(position, weight) == [weight |-> weight, position |-> position]

----------------------------------------------------------------------------
\* class dirac_measure

dirac_weights(s) == [i \in 1..Len(s) |-> s[i].weight]

dirac_positions(s) == [i \in 1..Len(s) |-> s[i].position]

dirac_n(s) == Len(s)

dirac_mass(s) == SumSeq(dirac_weights(s))

\* for i in range(len(weights)): self[i].weight = weights[i]
\* self[i] raises IndexError once i reaches len(self); the points written
\* before stay written.
RECURSIVE set_weights_loop(_, _, _)
set_weights_loop(s, weights, i) ==
  IF i > Len(weights) THEN [m |-> s, err |-> "none"]
  ELSE IF i > Len(s) THEN [m |-> s, err |-> "IndexError"]
  ELSE set_weights_loop([s EXCEPT ![i].weight = weights[i]], weights, i + 1)

\* Mutant of dirac_set_weights: the loop stops one element early
dirac_set_weights_short(s, weights) ==
  set_weights_loop(s, SubSeq(weights, 1, Len(weights) - 1), 1)

dirac_set_weights(s, weights) == set_weights_loop(s, weights, 1)

RECURSIVE set_positions_loop(_, _, _)
set_positions_loop(s, positions, i) ==
  IF i > Len(positions) THEN [m |-> s, err |-> "none"]
  ELSE IF i > Len(s) THEN [m |-> s, err |-> "IndexError"]
  ELSE set_positions_loop([s EXCEPT ![i].position = positions[i]],
                          positions, i + 1)

\* Mutant of dirac_set_positions: the weight is overwritten with the position
RECURSIVE set_both_loop(_, _, _)
set_both_loop(s, positions, i) ==
  IF i > Len(positions) THEN [m |-> s, err |-> "none"]
  ELSE IF i > Len(s) THEN [m |-> s, err |-> "IndexError"]
  ELSE set_both_loop([s EXCEPT ![i] = point(positions[i], positions[i])],
                     positions, i + 1)

dirac_set_positions_and_weights(s, positions) == set_both_loop(s, positions, 1)

dirac_set_positions(s, positions) == set_positions_loop(s, positions, 1)

----------------------------------------------------------------------------
\* mystic.math.measures: _pack, _unpack, _nested_split

\* ret = [[i] for i in samples[0]]
\* for i in 1..: ret = [x+[y] for y in samples[i] for x in ret]
\* The first dimension varies fastest.
RECURSIVE pack_loop(_, _, _)
pack_loop(samples, i, acc) ==
  IF i > Len(samples) THEN acc
  ELSE IF Len(acc) = 0 THEN <<>>
  ELSE pack_loop(samples, i + 1,
         [k \in 1..(Len(acc) * Len(samples[i])) |->
            Append(acc[((k - 1) % Len(acc)) + 1],
                   samples[i][((k - 1) \div Len(acc)) + 1])])

_pack(samples) ==
  pack_loop(samples, 2, [k \in 1..Len(samples[1]) |-> <<samples[1][k]>>])

\* The python slice l[:stop:step]
Slice(l, stop, step) ==
  LET top == IF stop < Len(l) THEN stop ELSE Len(l)
      cnt == (top + step - 1) \div step
  IN  [k \in 1..cnt |-> l[(k - 1) * step + 1]]

\* for n in range(ndim):
\*   _samples.append([j[n] for j in samples][:npts[n]*currpts:currpts])
\*   currpts *= npts[n]
RECURSIVE unpack_loop(_, _, _, _)
unpack_loop(samples, npts, n, currpts) ==
  IF n > Len(npts) THEN <<>>
  ELSE <<Slice([j \in 1..Len(samples) |-> samples[j][n]],
               npts[n] * currpts, currpts)>>
       \o unpack_loop(samples, npts, n + 1, currpts * npts[n])

_unpack(samples, npts) == unpack_loop(samples, npts, 1, 1)

\* The flat sequence holds, per dimension, its weights then its positions.
RECURSIVE nested_split_loop(_, _, _, _)
nested_split_loop(params, npts, i, off) ==
  IF i > Len(npts) THEN [w |-> <<>>, x |-> <<>>]
  ELSE LET rest == nested_split_loop(params, npts, i + 1, off + 2 * npts[i])
       IN  [w |-> <<SubSeq(params, off + 1, off + npts[i])>> \o rest.w,
            x |-> <<SubSeq(params, off + npts[i] + 1, off + 2 * npts[i])>>
                  \o rest.x]

_nested_split(params, npts) ==
  LET r == nested_split_loop(params, npts, 1, 0) IN <<r.w, r.x>>

----------------------------------------------------------------------------
\* class product_measure

\* npts = 1; for i in self: npts *= i.npts
RECURSIVE n_loop(_, _, _)
n_loop(cc, i, npts) ==
  IF i > Len(cc) THEN npts ELSE n_loop(cc, i + 1, npts * dirac_n(cc[i]))

\* Mutant of product_n: the counts are added, not multiplied
RECURSIVE n_sum_loop(_, _, _)
n_sum_loop(cc, i, npts) ==
  IF i > Len(cc) THEN npts ELSE n_sum_loop(cc, i + 1, npts + dirac_n(cc[i]))

product_n_sum(cc) == n_sum_loop(cc, 1, 1)

product_n(cc) == n_loop(cc, 1, 1)

\* weight = 1.0; for w in wts: weight *= w
RECURSIVE weight_loop(_, _, _)
weight_loop(wts, i, weight) ==
  IF i > Len(wts) THEN weight ELSE weight_loop(wts, i + 1, weight * wts[i])

\* Mutant of product_weights: the weights packed with the dimensions in the
\* reverse order, so that the last dimension varies fastest
product_weights_reversed(cc) ==
  LET weights == _pack([i \in 1..Len(cc) |->
                          dirac_weights(cc[Len(cc) + 1 - i])])
  IN  [k \in 1..Len(weights) |-> weight_loop(weights[k], 1, 1)]

product_weights(cc) ==
  LET weights == _pack([i \in 1..Len(cc) |-> dirac_weights(cc[i])])
  IN  [k \in 1..Len(weights) |-> weight_loop(weights[k], 1, 1)]

product_positions(cc) == _pack([i \in 1..Len(cc) |-> dirac_positions(cc[i])])

\* for i in range(len(coords)): self[i].coords = coords[i]
RECURSIVE product_set_loop(_, _, _)
product_set_loop(cc, coords, i) ==
  IF i > Len(coords) THEN [m |-> cc, err |-> "none"]
  ELSE IF i > Len(cc) THEN [m |-> cc, err |-> "IndexError"]
  ELSE LET r == dirac_set_positions(cc[i], coords[i])
       IN  IF r.err # "none" THEN [m |-> [cc EXCEPT ![i] = r.m], err |-> r.err]
           ELSE product_set_loop([cc EXCEPT ![i] = r.m], coords, i + 1)

\* Mutant of product_set_positions: the last dimension is not assigned
product_set_positions_short(cc, coords) ==
  LET npts == [i \in 1..Len(cc) |-> dirac_n(cc[i])]
      split == _unpack(coords, npts)
  IN  product_set_loop(cc, SubSeq(split, 1, Len(split) - 1), 1)

product_set_positions(cc, coords) ==
  LET npts == [i \in 1..Len(cc) |-> dirac_n(cc[i])]
  IN  product_set_loop(cc, _unpack(coords, npts), 1)

product_mass(cc) == [i \in 1..Len(cc) |-> dirac_mass(cc[i])]

\* The functions handed to pof, applied to one coordinate tuple
ApplyF(f, x) ==
  CASE f = "one" -> 1
    [] f = "minus_one" -> -1
    [] f = "first" -> x[1]
    [] f = "sum_minus_one" -> SumSeq(x) - 1

\* u = 0
\* for i in range(self.npts):
\*   if f(self.coords[i]) <= 0.0: u += self.weights[i]
RECURSIVE pof_loop(_, _, _, _)
pof_loop(cc, f, i, u) ==
  IF i > product_n(cc) THEN u
  ELSE pof_loop(cc, f, i + 1,
                IF ApplyF(f, product_positions(cc)[i]) <= 0
                THEN u + product_weights(cc)[i] ELSE u)

\* Mutant of pof: a value of exactly 0.0 counts as success
RECURSIVE pof_strict_loop(_, _, _, _)
pof_strict_loop(cc, f, i, u) ==
  IF i > product_n(cc) THEN u
  ELSE pof_strict_loop(cc, f, i + 1,
                       IF ApplyF(f, product_positions(cc)[i]) < 0
                       THEN u + product_weights(cc)[i] ELSE u)

pof_strict(cc, f) == pof_strict_loop(cc, f, 1, 0)

pof(cc, f) == pof_loop(cc, f, 1, 0)

----------------------------------------------------------------------------
\* compose, decompose, unflatten, flatten

\* Mutant of compose: the point built with its two arguments exchanged
compose_swapped(samples, weights) ==
  [i \in 1..Len(samples) |->
     [j \in 1..Len(samples[i]) |-> point(weights[i][j], samples[i][j])]]

compose(samples, weights) ==
  [i \in 1..Len(samples) |->
     [j \in 1..Len(samples[i]) |-> point(samples[i][j], weights[i][j])]]

\* rv.append(c[i].weights); rv.append(c[i].coords); list(chain(*rv))
RECURSIVE flatten_loop(_, _)
flatten_loop(cc, i) ==
  IF i > Len(cc) THEN <<>>
  ELSE <<dirac_weights(cc[i]), dirac_positions(cc[i])>> \o flatten_loop(cc, i + 1)

\* Mutant of flatten: each dimension's positions emitted before its weights
RECURSIVE flatten_coords_first_loop(_, _)
flatten_coords_first_loop(cc, i) ==
  IF i > Len(cc) THEN <<>>
  ELSE <<dirac_positions(cc[i]), dirac_weights(cc[i])>>
       \o flatten_coords_first_loop(cc, i + 1)

flatten_coords_first(cc) == Concat(flatten_coords_first_loop(cc, 1))

flatten(cc) == Concat(flatten_loop(cc, 1))

\* Mutant of decompose: the pair returned as (weights, positions)
decompose_weights_first(cc) ==
  LET npts == [i \in 1..Len(cc) |-> dirac_n(cc[i])]
      wx == _nested_split(flatten(cc), npts)
  IN  <<wx[1], wx[2]>>

\* w, x = _nested_split(flatten(c), npts); return x, w
decompose(cc) ==
  LET npts == [i \in 1..Len(cc) |-> dirac_n(cc[i])]
      wx == _nested_split(flatten(cc), npts)
  IN  <<wx[2], wx[1]>>

\* w, x = _nested_split(params, npts); return compose(x, w)
unflatten(params, npts) ==
  LET wx == _nested_split(params, npts) IN compose(wx[2], wx[1])

----------------------------------------------------------------------------
\* Construction: a product_measure composed from nested positions and weights

Init ==
  \E shape \in Shapes :
    \E samples \in Nested(Positions, shape), weights \in Nested(Weights, shape) :
      /\ c = compose(samples, weights)
      /\ op = "idle"
      /\ arg = <<>>
      /\ ret = <<>>
      /\ err = "none"

\* The caller makes one call at a time.  op, arg, ret and err are its record
\* of the last call, which it drops (Return) before the next call.
Ready == op = "idle"

Return ==
  /\ op # "idle"
  /\ op' = "idle"
  /\ arg' = <<>>
  /\ ret' = <<>>
  /\ err' = "none"
  /\ UNCHANGED c

\* The point counts of the dimensions: [i.npts for i in self]
Counts(cc) == [i \in 1..Len(cc) |-> dirac_n(cc[i])]

\* Inputs of the setters of one dirac_measure of n points: sequences of the
\* right length, shorter by one and longer by one
SetterInputs(S, n) == UNION {InputSeqs(S, k) : k \in (n - 1)..(n + 1)}

\* The joint sequences that are grids: the packing of per-dimension positions
Grids(npts) == {_pack(s) : s \in NestedInputs(Positions, npts)}

\* Inputs of product_measure.coords: npts tuples, the grids and the grids
\* with the last tuple replaced by a copy of the first
JointInputs(npts) ==
  Grids(npts) \cup {[g EXCEPT ![Len(g)] = g[1]] : g \in Grids(npts)}

\* s.weights = weights
DiracSetWeights ==
  /\ Ready
  /\ \E i \in 1..Len(c) : \E weights \in SetterInputs(Weights, Len(c[i])) :
         LET r == dirac_set_weights(c[i], weights)
         IN  /\ c' = [c EXCEPT ![i] = r.m]
             /\ op' = "dirac_set_weights"
             /\ arg' = <<i, weights>>
             /\ ret' = <<>>
             /\ err' = r.err

\* s.coords = positions
DiracSetCoords ==
  /\ Ready
  /\ \E i \in 1..Len(c) : \E positions \in SetterInputs(Positions, Len(c[i])) :
         LET r == dirac_set_positions(c[i], positions)
         IN  /\ c' = [c EXCEPT ![i] = r.m]
             /\ op' = "dirac_set_coords"
             /\ arg' = <<i, positions>>
             /\ ret' = <<>>
             /\ err' = r.err

\* A call into mystic.math.measures (impose_mean, impose_spread,
\* impose_weight_norm, impose_expectation) that raises: the exception leaves
\* the method before its assignment, so the measure is as it was.
Raises(name, a) ==
  /\ op' = name
  /\ arg' = a
  /\ ret' = <<>>
  /\ err' = "ValueError"
  /\ UNCHANGED c

\* s.mean = m and s.range = r: self.coords = impose_mean(m, ...) or
\* impose_spread(r, ...), which raise or return new positions for the same
\* points
DiracSetMean ==
  /\ Ready
  /\ \E i \in 1..Len(c) :
       \/ Raises("dirac_set_mean", <<i>>)
       \/ \E positions \in InputSeqs(Positions, Len(c[i])) :
            LET r == dirac_set_positions(c[i], positions)
            IN  /\ c' = [c EXCEPT ![i] = r.m]
                /\ op' = "dirac_set_mean"
                /\ arg' = <<i>>
                /\ ret' = <<>>
                /\ err' = r.err

DiracSetRange ==
  /\ Ready
  /\ \E i \in 1..Len(c) :
       \/ Raises("dirac_set_range", <<i>>)
       \/ \E positions \in InputSeqs(Positions, Len(c[i])) :
            LET r == dirac_set_positions(c[i], positions)
            IN  /\ c' = [c EXCEPT ![i] = r.m]
                /\ op' = "dirac_set_range"
                /\ arg' = <<i>>
                /\ ret' = <<>>
                /\ err' = r.err

\* s.normalize(): self.coords, self.weights = impose_weight_norm(...)
DiracNormalize ==
  /\ Ready
  /\ \E i \in 1..Len(c) :
       \/ Raises("dirac_normalize", <<i>>)
       \/ \E positions \in InputSeqs(Positions, Len(c[i])),
             weights \in InputSeqs(Weights, Len(c[i])) :
            LET r1 == dirac_set_positions(c[i], positions)
                r2 == dirac_set_weights(r1.m, weights)
            IN  /\ c' = [c EXCEPT ![i] = r2.m]
                /\ op' = "dirac_normalize"
                /\ arg' = <<i>>
                /\ ret' = <<>>
                /\ err' = r2.err

\* c.coords = coords
ProductSetCoords ==
  /\ Ready
  /\ \E coords \in JointInputs(Counts(c)) :
         LET r == product_set_positions(c, coords)
         IN  /\ c' = r.m
             /\ op' = "product_set_coords"
             /\ arg' = coords
             /\ ret' = <<>>
             /\ err' = r.err

\* c.set_expect((m,D), f): self.coords = impose_expectation(...), which
\* raises or returns the packed positions of a measure with the same point
\* counts
SetExpect ==
  /\ Ready
  /\ \/ Raises("set_expect", <<>>)
     \/ \E coords \in Grids(Counts(c)) :
          LET r == product_set_positions(c, coords)
          IN  /\ c' = r.m
              /\ op' = "set_expect"
              /\ arg' = <<>>
              /\ ret' = <<>>
              /\ err' = r.err

\* A call that leaves the measure alone and returns a value
Returns(name, a, value) ==
  /\ op' = name
  /\ arg' = a
  /\ ret' = value
  /\ err' = "none"
  /\ UNCHANGED c

\* The queries return a view of the measure.
Query(name, a, value) == Ready /\ Returns(name, a, value)

QueryNpts == Query("npts", <<>>, product_n(c))

QueryWeights == Query("weights", <<>>, product_weights(c))

QueryCoords == Query("coords", <<>>, product_positions(c))

QueryMass == Query("mass", <<>>, product_mass(c))

QueryPof == \E f \in Functions : Query("pof", f, pof(c, f))

DiracQueryWeights ==
  \E i \in 1..Len(c) : Query("dirac_weights", <<i>>, dirac_weights(c[i]))

DiracQueryCoords ==
  \E i \in 1..Len(c) : Query("dirac_coords", <<i>>, dirac_positions(c[i]))

DiracQueryNpts ==
  \E i \in 1..Len(c) : Query("dirac_npts", <<i>>, dirac_n(c[i]))

DiracQueryMass ==
  \E i \in 1..Len(c) : Query("dirac_mass", <<i>>, dirac_mass(c[i]))

Next ==
  \/ DiracSetWeights
  \/ DiracSetCoords
  \/ DiracSetMean
  \/ DiracSetRange
  \/ DiracNormalize
  \/ ProductSetCoords
  \/ SetExpect
  \/ QueryNpts
  \/ QueryWeights
  \/ QueryCoords
  \/ QueryMass
  \/ QueryPof
  \/ DiracQueryWeights
  \/ DiracQueryCoords
  \/ DiracQueryNpts
  \/ DiracQueryMass
  \/ Return

Spec == Init /\ [][Next]_vars

----------------------------------------------------------------------------
\* The transforms between a product_measure and the flat and nested lists

\* c = compose(samples, weights), for every nested positions and weights
InitT ==
  \E shape \in Shapes :
    \E samples \in Nested(Positions, shape),
       weights \in Nested(Weights, shape) :
      /\ c = compose(samples, weights)
      /\ op = "compose"
      /\ arg = <<samples, weights>>
      /\ ret = <<>>
      /\ err = "none"

\* flatten(c)
Flatten == Returns("flatten", <<>>, flatten(c))

\* decompose(c)
Decompose == Returns("decompose", <<>>, decompose(c))

\* c = unflatten(params, npts), on the flat list flatten gave and the point
\* counts of the measure it came from
Unflatten ==
  /\ op = "flatten"
  /\ c' = unflatten(ret, Counts(c))
  /\ op' = "unflatten"
  /\ arg' = <<ret, Counts(c)>>
  /\ ret' = <<>>
  /\ err' = "none"

\* c = compose(samples, weights), on the nested lists decompose gave
Compose ==
  /\ op = "decompose"
  /\ c' = compose(ret[1], ret[2])
  /\ op' = "compose"
  /\ arg' = ret
  /\ ret' = <<>>
  /\ err' = "none"

NextT ==
  \/ Flatten
  \/ Decompose
  \/ Unflatten
  \/ Compose

SpecT == InitT /\ [][NextT]_vars

----------------------------------------------------------------------------
\* Properties of the transforms, under SpecT

\* The offset of dimension i's block in the flat list: twice the number of
\* points of the dimensions before it
BlockOffset(cc, i) == 2 * SumSeq([d \in 1..(i - 1) |-> Len(cc[d])])

\* C4: unflatten(flatten(c), [d.npts for d in c]) is a product_measure with
\* the coords and the weights of c, and with the positions and weights of
\* each dimension of c.
C4_UnflattenFlatten ==
  [][(op' = "unflatten" /\ arg' = <<flatten(c), Counts(c)>>) =>
       /\ product_positions(c') = product_positions(c)
       /\ product_weights(c') = product_weights(c)
       /\ Len(c') = Len(c)
       /\ \A i \in 1..Len(c) :
            /\ dirac_positions(c'[i]) = dirac_positions(c[i])
            /\ dirac_weights(c'[i]) = dirac_weights(c[i])]_vars

\* A measure of two dimensions of two points each, its positions and its
\* weights differing within a dimension, rebuilt by unflatten
C4_Witness ==
  /\ op = "unflatten"
  /\ Counts(c) = <<2, 2>>
  /\ c[1][1].position # c[1][2].position
  /\ c[2][1].weight # c[2][2].weight

\* C5: decompose(compose(positions, weights)) == (positions, weights), the
\* positions first, one inner sequence per dimension in the original order.
C5_DecomposeCompose ==
  [][(op = "compose" /\ op' = "decompose") => ret' = arg]_vars

\* decompose has returned the nested lists of a measure of a dimension of
\* one point and a dimension of three
C5_Witness ==
  /\ op = "decompose"
  /\ Len(ret) = 2
  /\ Len(ret[1]) = 2
  /\ Len(ret[1][1]) = 1
  /\ Len(ret[1][2]) = 3
  /\ ret[1][2][1] # ret[1][2][3]
  /\ ret[2][2][1] # ret[2][2][2]

\* C7: flatten(c) is, dimension after dimension, the weights of the
\* dimension then its positions: its length is twice the number of points
\* and the block of dimension i starts at twice the number of points of the
\* dimensions before i.
C7_FlattenLayout ==
  op = "flatten" =>
    /\ Len(ret) = 2 * SumSeq(Counts(c))
    /\ \A i \in 1..Len(c) : \A j \in 1..Len(c[i]) :
         /\ ret[BlockOffset(c, i) + j] = c[i][j].weight
         /\ ret[BlockOffset(c, i) + Len(c[i]) + j] = c[i][j].position

\* flatten has returned the eight values of a measure of two dimensions of
\* two points each
C7_Witness ==
  /\ op = "flatten"
  /\ Counts(c) = <<2, 2>>
  /\ Len(ret) = 8
  /\ c[2][1].position # c[2][2].position

----------------------------------------------------------------------------
\* Properties of the measures, under Spec

RECURSIVE ProdSeq(_)
ProdSeq(s) == IF s = <<>> THEN 1 ELSE s[1] * ProdSeq(Tail(s))

RECURSIVE SumOver(_, _)
SumOver(S, w) ==
  IF S = {} THEN 0
  ELSE LET k == CHOOSE x \in S : TRUE IN w[k] + SumOver(S \ {k}, w)

PositionsOf(cc) == [i \in 1..Len(cc) |-> dirac_positions(cc[i])]

WeightsOf(cc) == [i \in 1..Len(cc) |-> dirac_weights(cc[i])]

\* One point chosen in each dimension of cc
RECURSIVE ChoicesUpTo(_, _)
ChoicesUpTo(cc, d) ==
  IF d = 0 THEN {<<>>}
  ELSE {Append(J, j) : J \in ChoicesUpTo(cc, d - 1), j \in 1..Len(cc[d])}

Choices(cc) == ChoicesUpTo(cc, Len(cc))

\* A joint sequence that is the packing of per-dimension sequences
IsPacked(x, npts) == \E s \in Nested(Positions, npts) : x = _pack(s)

\* C1: assigning a sequence whose length is not npts to coords or to
\* weights of a dirac_measure fails and leaves every position and weight
\* as it was.
C1_WrongLengthFailsUnchanged ==
  [][(/\ op' \in {"dirac_set_coords", "dirac_set_weights"}
      /\ Len(arg'[2]) # Len(c[arg'[1]]))
       => (err' # "none" /\ c' = c)]_vars

\* C2: len(c.weights) == len(c.coords) == c.npts == the product of the
\* npts of the dimensions of c, whatever setters were called before the
\* views are read.
C2_JointLengths ==
  /\ op = "weights" => Len(ret) = ProdSeq(Counts(c))
  /\ op = "coords" => Len(ret) = ProdSeq(Counts(c))
  /\ op = "npts" => ret = ProdSeq(Counts(c))
  /\ op \in {"weights", "coords", "npts"} =>
       /\ Len(product_weights(c)) = Len(product_positions(c))
       /\ Len(product_positions(c)) = product_n(c)

\* The joint weights of a measure of two dimensions of two points each
\* have been read
C2_Witness ==
  /\ op = "weights"
  /\ Counts(c) = <<2, 2>>
  /\ Len(ret) = 4

\* C3: for every joint index k there is one choice of a point per dimension
\* such that c.coords[k] is the tuple of the positions of the points chosen
\* and c.weights[k] the product of their weights.
C3_SameGridPoint ==
  op = "weights" =>
    LET coords == product_positions(c)
        choices == Choices(c)
    IN  \A k \in 1..product_n(c) :
          \E J \in choices :
            /\ coords[k] = [i \in 1..Len(c) |-> c[i][J[i]].position]
            /\ ret[k] = ProdSeq([i \in 1..Len(c) |-> c[i][J[i]].weight])

\* The joint weights read of a measure of two dimensions of two points each
\* whose first dimension has two weights and two positions and whose second
\* has two positions and one weight
C3_Witness ==
  /\ op = "weights"
  /\ Counts(c) = <<2, 2>>
  /\ c[1][1].weight # c[1][2].weight
  /\ c[1][1].position # c[1][2].position
  /\ c[2][1].position # c[2][2].position
  /\ c[2][1].weight = c[2][2].weight

\* The joint indices at which f fails
Failures(cc, f) ==
  {k \in 1..Len(product_positions(cc)) :
     ApplyF(f, product_positions(cc)[k]) <= 0}

\* C6: c.pof(f) is the sum of c.weights[k] over the joint indices k with
\* f(c.coords[k]) <= 0.0, not renormalized: 0 when f is positive
\* everywhere, the sum of all joint weights when f is negative everywhere;
\* pof changes no position and no weight.
C6_Pof ==
  [][op' = "pof" =>
       /\ c' = c
       /\ ret' = SumOver(Failures(c, arg'), product_weights(c))
       /\ (arg' = "one" => ret' = 0)
       /\ (arg' = "minus_one" => ret' = SumSeq(product_weights(c)))]_vars

\* pof of the function that is the first coordinate, on a measure where it
\* is 0.0 at some points, which fail, and positive at others
C6_Witness ==
  /\ op = "pof"
  /\ arg = "first"
  /\ Len(c) = 2
  /\ ret > 0
  /\ ret < SumSeq(product_weights(c))

\* C8 as stated: for any joint sequence x of c.npts tuples,
\* _pack(_unpack(x, counts)) == x, and c.coords reads x after c.coords = x.
C8_AnyJointSequence ==
  op = "product_set_coords" =>
    /\ _pack(_unpack(arg, Counts(c))) = arg
    /\ product_positions(c) = arg

\* C8 amended: for a joint sequence x that is the packing of per-dimension
\* sequences of the counts of c, _pack(_unpack(x, counts)) == x, and
\* c.coords reads x after c.coords = x.
C8_PackedJointSequence ==
  (op = "product_set_coords" /\ IsPacked(arg, Counts(c))) =>
    /\ _pack(_unpack(arg, Counts(c))) = arg
    /\ product_positions(c) = arg
    /\ err = "none"

\* c.coords assigned the packing of two positions per dimension, four
\* tuples that all differ
C8_Witness ==
  /\ op = "product_set_coords"
  /\ Counts(c) = <<2, 2>>
  /\ IsPacked(arg, Counts(c))
  /\ Cardinality({arg[k] : k \in 1..4}) = 4

\* The joint grid written out index by index: at joint index k dimension i
\* stands at its point ((k-1) div (n_1 * ... * n_(i-1))) mod n_i
GridIndex(cc, k, i) ==
  (((k - 1) \div ProdSeq([d \in 1..(i - 1) |-> Len(cc[d])])) % Len(cc[i])) + 1

GridSize(cc) == ProdSeq([i \in 1..Len(cc) |-> Len(cc[i])])

GridCoords(cc) ==
  [k \in 1..GridSize(cc) |->
     [i \in 1..Len(cc) |-> cc[i][GridIndex(cc, k, i)].position]]

GridWeights(cc) ==
  [k \in 1..GridSize(cc) |->
     ProdSeq([i \in 1..Len(cc) |-> cc[i][GridIndex(cc, k, i)].weight])]

\* The sum of the weights at the joint indices where f is not positive
GridPof(cc, f) ==
  LET coords == GridCoords(cc)
      weights == GridWeights(cc)
  IN  SumOver({k \in 1..Len(coords) : ApplyF(f, coords[k]) <= 0}, weights)

\* What a query returns on the measure cc
View(q, a, cc) ==
  CASE q = "npts" -> GridSize(cc)
    [] q = "weights" -> GridWeights(cc)
    [] q = "coords" -> GridCoords(cc)
    [] q = "mass" ->
         [i \in 1..Len(cc) |-> SumSeq([j \in 1..Len(cc[i]) |-> cc[i][j].weight])]
    [] q = "pof" -> GridPof(cc, a)
    [] q = "dirac_weights" -> [j \in 1..Len(cc[a[1]]) |-> cc[a[1]][j].weight]
    [] q = "dirac_coords" -> [j \in 1..Len(cc[a[1]]) |-> cc[a[1]][j].position]
    [] q = "dirac_npts" -> Len(cc[a[1]])
    [] q = "dirac_mass" ->
         SumSeq([j \in 1..Len(cc[a[1]]) |-> cc[a[1]][j].weight])

Queries ==
  {"npts", "weights", "coords", "mass", "pof",
   "dirac_weights", "dirac_coords", "dirac_npts", "dirac_mass"}

\* C9: no view is cached.  What a setter was handed is what the points hold
\* when it has returned, and every query returns the value the positions
\* and weights the points hold now give.
C9_NoStaleView ==
  /\ (op = "dirac_set_weights" /\ err = "none") =>
       \A j \in 1..Len(arg[2]) : c[arg[1]][j].weight = arg[2][j]
  /\ (op = "dirac_set_coords" /\ err = "none") =>
       \A j \in 1..Len(arg[2]) : c[arg[1]][j].position = arg[2][j]
  /\ (op = "product_set_coords" /\ err = "none") =>
       PositionsOf(c) = _unpack(arg, Counts(c))
  /\ op \in Queries => ret = View(op, arg, c)

\* The weights of a measure of two dimensions read after its points were
\* given different weights
C9_Witness ==
  /\ op = "weights"
  /\ Counts(c) = <<2, 2>>
  /\ c[1][1].weight # c[1][2].weight
  /\ c[2][1].weight # c[2][2].weight
  /\ ret[2] # ret[3]

\* C10: assigning product_measure.coords, set_expect and assigning the
\* coords of a dirac_measure change positions only: the weights, the npts
\* of each dimension, the number of dimensions and the joint weights stay;
\* assigning the weights of a dirac_measure leaves positions and npts.
C10_SetterFrame ==
  [][/\ (op' \in {"product_set_coords", "set_expect", "dirac_set_coords"} =>
           /\ WeightsOf(c') = WeightsOf(c)
           /\ Counts(c') = Counts(c)
           /\ Len(c') = Len(c)
           /\ product_weights(c') = product_weights(c))
     /\ (op' = "dirac_set_weights" =>
           /\ PositionsOf(c') = PositionsOf(c)
           /\ Counts(c') = Counts(c)
           /\ Len(c') = Len(c))]_vars

\* set_expect has moved the positions of a measure of two dimensions whose
\* weights differ
C10_Witness ==
  /\ op = "set_expect"
  /\ err = "none"
  /\ Counts(c) = <<2, 2>>
  /\ c[1][1].weight # c[1][2].weight
  /\ c[1][1].position # c[1][2].position
====
